---- MODULE Spec2Model ----
(***************************************************************************)
(* Model of the loadbalancer reverse proxy (src/src/main.rs).              *)
(*                                                                         *)
(* One process (main) accepts client connections and spawns one task per   *)
(* connection (handle_connection).  Every task owns a client socket and    *)
(* one upstream socket.  The clients and the upstream servers are the      *)
(* environment.  The message codec (request.rs / response.rs) is not part  *)
(* of the visible sources; its read/write contracts are modelled from      *)
(* section 4.1 and 4.4 of the specification.                               *)
(***************************************************************************)
EXTENDS Naturals, Sequences, FiniteSets

\* ------------------------------------------------------------------ bounds
NumConns == 2        \* client connections the listener is offered
NumUpstreams == 2    \* --upstream options given (when any is given)
MaxEvents == 4       \* connections made, messages written and connections
                     \* closed or broken by the clients and the upstreams
                     \* altogether

Conns == 1..NumConns

\* ------------------------------------------------------- program constants
BAD_REQUEST == 400
PAYLOAD_TOO_LARGE == 413
BAD_GATEWAY == 502
SERVICE_UNAVAILABLE == 503

\* textual form of the peer address of client connection c (main.rs:113);
\* every client connects from the same host, as in the tests
ClientIP(c) == "127.0.0.1"
\* an address recorded by an earlier proxy in x-forwarded-for
ForeignIP == "10.0.0.1"
\* statuses an upstream answers with: success, and the two error statuses
\* that the proxy has a use of its own for
UpstreamStatuses == {200, BAD_GATEWAY, SERVICE_UNAVAILABLE}

VARIABLES
  proc,               \* main: "init", "listening" or "exited"
  upstream_addresses, \* ProxyState.upstream_addresses (sequence of addresses)
  pc,                 \* position of handle_connection for each connection
  cstate,             \* client end of the client socket: open/closed/reset
  csent,              \* messages the client has written
  cin,                \* messages written by the client and not yet read
  nread,              \* messages the task has consumed from the client
  nok,                \* requests read_from_stream returned Ok for
  client_open,        \* the task holds client_conn
  upstream_conn,      \* address upstream_conn is connected to (0: none)
  upstream_open,      \* the task holds upstream_conn
  connects,           \* connect attempts made for the connection
  request,            \* local variable request of the loop body
  response,           \* response handed to send_response
  nfwd,               \* requests written to the upstream socket
  forwarded,          \* the request of this iteration as written upstream
  upReq,              \* requests received and not yet answered by upstream
  upResp,             \* responses in flight from the upstream
  nresp,              \* responses read from the upstream socket
  ustate,             \* upstream end of the upstream socket: open/closed
  nsent,              \* calls of send_response
  delivered           \* outcome of the write of the send_response just made

vars == <<proc, upstream_addresses, pc, cstate, csent, cin, nread, nok,
          client_open, upstream_conn, upstream_open, connects,
          request, response, nfwd, forwarded, upReq, upResp, nresp, ustate,
          nsent, delivered>>

connVars == <<pc, cstate, csent, cin, nread, nok, client_open,
              upstream_conn, upstream_open, connects, request,
              response, nfwd, forwarded, upReq, upResp, nresp, ustate,
              nsent, delivered>>

\* ------------------------------------------------------------ client input
\* What a client can put on the wire.  "ok" is a well-formed request,
\* "partial" an unterminated header block, "shortbody" a request whose
\* content-length exceeds the body bytes sent.
ItemKinds == {"ok", "malformed", "badlen", "toolarge", "partial", "shortbody"}
XffValues == {<<>>, <<ForeignIP>>}
Items == {[kind |-> k, xff |-> x] : k \in {"ok"}, x \in XffValues}
           \cup {[kind |-> k, xff |-> <<>>] : k \in ItemKinds \ {"ok"}}

NoReq == [conn |-> 0, seq |-> 0, orig |-> <<>>, xff |-> <<>>]
NoResp == [status |-> 0, conn |-> 0, seq |-> 0, synth |-> FALSE,
           why |-> "none"]
NoFwd == [conn |-> 0, seq |-> 0, orig |-> <<>>, xff |-> <<>>, addr |-> 0]

\* --------------------------------------------------------- message codec
\* request::read_from_stream on the unread part of the client stream.
\* "Pending" stands for a read that has not returned yet.
request_read_from_stream(unread, st) ==
  IF st = "reset" THEN [tag |-> "ConnectionError", n |-> 0]
  ELSE IF unread = <<>>
       THEN IF st = "closed" THEN [tag |-> "IncompleteRequest", n |-> 0]
                             ELSE [tag |-> "Pending", n |-> 0]
  ELSE LET item == Head(unread) IN
       CASE item.kind = "ok"        -> [tag |-> "Ok", n |-> 1]
         [] item.kind = "malformed" -> [tag |-> "MalformedRequest", n |-> 1]
         [] item.kind = "badlen"    -> [tag |-> "InvalidContentLength", n |-> 1]
         [] item.kind = "toolarge"  -> [tag |-> "RequestBodyTooLarge", n |-> 1]
         [] item.kind = "partial"   ->
              IF st = "closed" THEN [tag |-> "IncompleteRequest", n |-> 1]
                               ELSE [tag |-> "Pending", n |-> 0]
         [] item.kind = "shortbody" ->
              IF st = "closed" THEN [tag |-> "ContentLengthMismatch", n |-> 1]
                               ELSE [tag |-> "Pending", n |-> 0]

\* request::extend_header_value(request, "x-forwarded-for", value)
extend_header_value(req, value) ==
  [req EXCEPT !.xff = Append(req.xff, value)]

\* response::read_from_stream on the upstream socket
response_read_from_stream(inflight, st) ==
  IF inflight = <<>>
  THEN IF st = "closed" THEN [tag |-> "Err"] ELSE [tag |-> "Pending"]
  ELSE IF Head(inflight).wellformed THEN [tag |-> "Ok"] ELSE [tag |-> "Err"]

\* response::make_http_error(status), answering message seq of connection c
\* because of failure why
make_http_error(status, c, seq, why) ==
  [status |-> status, conn |-> c, seq |-> seq, synth |-> TRUE, why |-> why]

\* The match without the RequestBodyTooLarge arm: every error that reaches
\* it is a bad request
ErrorStatus_Flat(tag) == BAD_REQUEST

\* the match of main.rs:144-151
ErrorStatus(tag) ==
  CASE tag \in {"IncompleteRequest", "MalformedRequest",
                "InvalidContentLength", "ContentLengthMismatch"}
                                       -> BAD_REQUEST
    [] tag = "RequestBodyTooLarge"     -> PAYLOAD_TOO_LARGE
    [] tag = "ConnectionError"         -> SERVICE_UNAVAILABLE

\* outcomes of a write on a socket whose peer is in state st
WriteOutcomes(st) ==
  CASE st = "open"   -> {TRUE}
    [] st = "closed" -> {TRUE, FALSE}
    [] st = "reset"  -> {FALSE}

\* ------------------------------------------------------------------- Init
\* no --upstream option at all, or NumUpstreams of them
Configs == {[i \in 1..n |-> i] : n \in {0, NumUpstreams}}

Init ==
  /\ proc = "init"
  /\ upstream_addresses \in Configs
  /\ pc = [c \in Conns |-> "none"]
  /\ cstate = [c \in Conns |-> "open"]
  /\ csent = [c \in Conns |-> 0]
  /\ cin = [c \in Conns |-> <<>>]
  /\ nread = [c \in Conns |-> 0]
  /\ nok = [c \in Conns |-> 0]
  /\ client_open = [c \in Conns |-> FALSE]
  /\ upstream_conn = [c \in Conns |-> 0]
  /\ upstream_open = [c \in Conns |-> FALSE]
  /\ connects = [c \in Conns |-> 0]
  /\ request = [c \in Conns |-> NoReq]
  /\ response = [c \in Conns |-> NoResp]
  /\ nfwd = [c \in Conns |-> 0]
  /\ forwarded = [c \in Conns |-> NoFwd]
  /\ upReq = [c \in Conns |-> <<>>]
  /\ upResp = [c \in Conns |-> <<>>]
  /\ nresp = [c \in Conns |-> 0]
  /\ ustate = [c \in Conns |-> "open"]
  /\ nsent = [c \in Conns |-> 0]
  /\ delivered = [c \in Conns |-> TRUE]

\* ------------------------------------------------------------------- main
\* Start without the check of main.rs:50-53
Start_Unchecked ==
  /\ proc = "init"
  /\ \E bound \in BOOLEAN :
       proc' = IF bound THEN "listening" ELSE "exited"
  /\ UNCHANGED <<upstream_addresses, connVars>>

\* main.rs:49-69: refuse to start without upstreams, then bind
Start ==
  /\ proc = "init"
  /\ IF Len(upstream_addresses) < 1
     THEN proc' = "exited"
     ELSE \E bound \in BOOLEAN :
            proc' = IF bound THEN "listening" ELSE "exited"
  /\ UNCHANGED <<upstream_addresses, connVars>>

RECURSIVE SumTo(_, _)
SumTo(f, n) == IF n = 0 THEN 0 ELSE f[n] + SumTo(f, n - 1)
\* what the clients and the upstreams have done so far
Events == SumTo([c \in Conns |-> (IF pc[c] = "none" THEN 0 ELSE 1)
                                  + csent[c]
                                  + (IF cstate[c] = "open" THEN 0 ELSE 1)
                                  + (IF ustate[c] = "open" THEN 0 ELSE 1)],
                NumConns)

\* main.rs:71-82: a client connects; accept the connection and spawn
\* handle_connection
Accept(c) ==
  /\ proc = "listening"
  /\ pc[c] = "none"
  /\ \A d \in Conns : d < c => pc[d] # "none"
  /\ Events < MaxEvents
  /\ pc' = [pc EXCEPT ![c] = "connect"]
  /\ client_open' = [client_open EXCEPT ![c] = TRUE]
  /\ UNCHANGED <<proc, upstream_addresses, cstate, csent, cin, nread, nok,
                 upstream_conn, upstream_open, connects, request,
                 response, nfwd, forwarded, upReq, upResp, nresp, ustate,
                 nsent, delivered>>

\* main.rs:74-77: a failed accept ends the process and every task with it
AcceptFail(c) ==
  /\ proc = "listening"
  /\ pc[c] = "none"
  /\ \A d \in Conns : d < c => pc[d] # "none"
  /\ proc' = "exited"
  /\ UNCHANGED <<upstream_addresses, connVars>>

\* ------------------------------------------------------- handle_connection
\* Return that keeps the upstream socket: only client_conn is dropped
Return_KeepUpstream(c) ==
  /\ pc' = [pc EXCEPT ![c] = "done"]
  /\ client_open' = [client_open EXCEPT ![c] = FALSE]
  /\ upstream_open' = upstream_open
  /\ cin' = [cin EXCEPT ![c] = <<>>]
  /\ upReq' = [upReq EXCEPT ![c] = <<>>]
  /\ upResp' = [upResp EXCEPT ![c] = <<>>]

\* leaving handle_connection drops client_conn and upstream_conn; what is
\* unread on the two sockets is discarded with them
Return(c) ==
  /\ pc' = [pc EXCEPT ![c] = "done"]
  /\ client_open' = [client_open EXCEPT ![c] = FALSE]
  /\ upstream_open' = [upstream_open EXCEPT ![c] = FALSE]
  /\ cin' = [cin EXCEPT ![c] = <<>>]
  /\ upReq' = [upReq EXCEPT ![c] = <<>>]
  /\ upResp' = [upResp EXCEPT ![c] = <<>>]

Configured == {upstream_addresses[i] : i \in DOMAIN upstream_addresses}

\* the addresses that connections have been made to
InUse == {upstream_conn[d] : d \in Conns} \ {0}

\* Connect with failover: after a refused connect the remaining upstreams
\* are tried before giving up
Connect_Failover(c) ==
  /\ proc = "listening"
  /\ pc[c] = "connect"
  /\ \E upstream_idx \in 1..Len(upstream_addresses),
        accepting \in SUBSET Configured :
       LET upstream_ip == upstream_addresses[upstream_idx] IN
       IF upstream_idx > Cardinality(InUse) + 1 THEN FALSE
       ELSE IF upstream_ip \in accepting
       THEN /\ connects' = [connects EXCEPT ![c] = @ + 1]
            /\ upstream_conn' = [upstream_conn EXCEPT ![c] = upstream_ip]
            /\ upstream_open' = [upstream_open EXCEPT ![c] = TRUE]
            /\ pc' = [pc EXCEPT ![c] = "read"]
            /\ UNCHANGED response
       ELSE IF accepting # {}
       THEN /\ connects' = [connects EXCEPT ![c] = @ + 2]
            /\ \E other \in accepting :
                 upstream_conn' = [upstream_conn EXCEPT ![c] = other]
            /\ upstream_open' = [upstream_open EXCEPT ![c] = TRUE]
            /\ pc' = [pc EXCEPT ![c] = "read"]
            /\ UNCHANGED response
       ELSE /\ connects' = [connects EXCEPT ![c] = @ + 1]
            /\ response' = [response EXCEPT
                 ![c] = make_http_error(BAD_GATEWAY, c, 0, "ConnectFailed")]
            /\ pc' = [pc EXCEPT ![c] = "send_return"]
            /\ UNCHANGED <<upstream_conn, upstream_open>>
  /\ UNCHANGED <<proc, upstream_addresses, cstate, csent, cin, nread, nok,
                 client_open, request, nfwd, forwarded, upReq, upResp,
                 nresp, ustate, nsent, delivered>>

\* Connect whose failure takes the process down
Connect_Exit(c) ==
  /\ proc = "listening"
  /\ pc[c] = "connect"
  /\ \E upstream_idx \in 1..Len(upstream_addresses),
        accepting \in SUBSET Configured :
       LET upstream_ip == upstream_addresses[upstream_idx] IN
       /\ upstream_idx <= Cardinality(InUse) + 1
       /\ connects' = [connects EXCEPT ![c] = @ + 1]
       /\ IF upstream_ip \in accepting
          THEN /\ upstream_conn' = [upstream_conn EXCEPT ![c] = upstream_ip]
               /\ upstream_open' = [upstream_open EXCEPT ![c] = TRUE]
               /\ pc' = [pc EXCEPT ![c] = "read"]
               /\ UNCHANGED <<proc, response>>
          ELSE /\ response' = [response EXCEPT
                                 ![c] = make_http_error(BAD_GATEWAY, c, 0,
                                                        "ConnectFailed")]
               /\ pc' = [pc EXCEPT ![c] = "send_return"]
               /\ proc' = "exited"
               /\ UNCHANGED <<upstream_conn, upstream_open>>
  /\ UNCHANGED <<upstream_addresses, cstate, csent, cin, nread, nok,
                 client_open, request, nfwd, forwarded, upReq, upResp,
                 nresp, ustate, nsent, delivered>>

\* main.rs:116-124 with connect_to_upstream (86-96): one random upstream,
\* one connect attempt; a failure is answered with 502 and ends the task.
\* accepting: the upstreams that accept a connection at this moment.
\* The selector and the properties treat the configured addresses alike, so
\* of the behaviours that differ by a renaming of the addresses the one is
\* taken in which the addresses are first connected to in list order: the
\* choice is among the addresses in use and the first one not in use.
Connect(c) ==
  /\ proc = "listening"
  /\ pc[c] = "connect"
  /\ \E upstream_idx \in 1..Len(upstream_addresses),
        accepting \in SUBSET Configured :
       LET upstream_ip == upstream_addresses[upstream_idx] IN
       /\ upstream_idx <= Cardinality(InUse) + 1
       /\ connects' = [connects EXCEPT ![c] = @ + 1]
       /\ IF upstream_ip \in accepting
          THEN /\ upstream_conn' = [upstream_conn EXCEPT ![c] = upstream_ip]
               /\ upstream_open' = [upstream_open EXCEPT ![c] = TRUE]
               /\ pc' = [pc EXCEPT ![c] = "read"]
               /\ UNCHANGED response
          ELSE /\ response' = [response EXCEPT
                                 ![c] = make_http_error(BAD_GATEWAY, c, 0,
                                                        "ConnectFailed")]
               /\ pc' = [pc EXCEPT ![c] = "send_return"]
               /\ UNCHANGED <<upstream_conn, upstream_open>>
  /\ UNCHANGED <<proc, upstream_addresses, cstate, csent, cin, nread, nok,
                 client_open, request, nfwd, forwarded, upReq, upResp,
                 nresp, ustate, nsent, delivered>>

ReadResult(c) == request_read_from_stream(cin[c], cstate[c])

\* main.rs:130-131: a request was read
ReadOk(c) ==
  /\ proc = "listening"
  /\ pc[c] = "read"
  /\ ReadResult(c).tag = "Ok"
  /\ nread' = [nread EXCEPT ![c] = @ + 1]
  /\ nok' = [nok EXCEPT ![c] = @ + 1]
  /\ delivered' = [delivered EXCEPT ![c] = TRUE]
  /\ cin' = [cin EXCEPT ![c] = Tail(@)]
  /\ request' = [request EXCEPT
                   ![c] = [conn |-> c, seq |-> nread[c] + 1,
                           orig |-> Head(cin[c]).xff,
                           xff |-> Head(cin[c]).xff]]
  /\ pc' = [pc EXCEPT ![c] = "forward"]
  /\ UNCHANGED <<proc, upstream_addresses, cstate, csent, client_open,
                 upstream_conn, upstream_open, connects, response,
                 nfwd, forwarded, upReq, upResp, nresp, ustate, nsent>>

\* ReadEof without the IncompleteRequest(0) arm: the end of input is
\* answered like any other incomplete request before the task ends
ReadEof_Answered(c) ==
  /\ proc = "listening"
  /\ pc[c] = "read"
  /\ ReadResult(c).tag = "IncompleteRequest"
  /\ ReadResult(c).n = 0
  /\ response' = [response EXCEPT
                    ![c] = make_http_error(BAD_REQUEST, c, nread[c],
                                           "IncompleteRequest")]
  /\ pc' = [pc EXCEPT ![c] = "send_return"]
  /\ UNCHANGED <<proc, upstream_addresses, cstate, csent, cin, nread, nok,
                 client_open, upstream_conn, upstream_open, connects,
                 request, nfwd, forwarded, upReq, upResp, nresp, ustate,
                 nsent, delivered>>

\* main.rs:133-136: the client closed without a pending byte
ReadEof(c) ==
  /\ proc = "listening"
  /\ pc[c] = "read"
  /\ ReadResult(c).tag = "IncompleteRequest"
  /\ ReadResult(c).n = 0
  /\ Return(c)
  /\ UNCHANGED <<proc, upstream_addresses, cstate, csent, nread, nok,
                 upstream_conn, connects, request, response, nfwd,
                 forwarded, nresp, ustate, nsent, delivered>>

\* ReadConnError without the ConnectionError arm: the error reaches the
\* status match of main.rs:150 and is answered before the task ends
ReadConnError_Answered(c) ==
  /\ proc = "listening"
  /\ pc[c] = "read"
  /\ ReadResult(c).tag = "ConnectionError"
  /\ response' = [response EXCEPT
                    ![c] = make_http_error(SERVICE_UNAVAILABLE, c, nread[c],
                                           "ConnectionError")]
  /\ pc' = [pc EXCEPT ![c] = "send_return"]
  /\ UNCHANGED <<proc, upstream_addresses, cstate, csent, cin, nread, nok,
                 client_open, upstream_conn, upstream_open, connects,
                 request, nfwd, forwarded, upReq, upResp, nresp, ustate,
                 nsent, delivered>>

\* ReadConnError without the arm of main.rs:138-141: the error falls
\* through to the last arm, is answered by the status of main.rs:150 and
\* the loop continues
ReadConnError_FallThrough(c) ==
  /\ proc = "listening"
  /\ pc[c] = "read"
  /\ ReadResult(c).tag = "ConnectionError"
  /\ delivered' = [delivered EXCEPT ![c] = TRUE]
  /\ response' = [response EXCEPT
                    ![c] = make_http_error(ErrorStatus(ReadResult(c).tag),
                                           c, nread[c], ReadResult(c).tag)]
  /\ pc' = [pc EXCEPT ![c] = "send_loop"]
  /\ UNCHANGED <<proc, upstream_addresses, cstate, csent, cin, nread, nok,
                 client_open, upstream_conn, upstream_open, connects,
                 request, nfwd, forwarded, upReq, upResp, nresp, ustate,
                 nsent>>

\* main.rs:138-141: I/O error on the client socket
ReadConnError(c) ==
  /\ proc = "listening"
  /\ pc[c] = "read"
  /\ ReadResult(c).tag = "ConnectionError"
  /\ Return(c)
  /\ UNCHANGED <<proc, upstream_addresses, cstate, csent, nread, nok,
                 upstream_conn, connects, request, response, nfwd,
                 forwarded, nresp, ustate, nsent, delivered>>

\* ReadClientFault with `return` in place of `continue`
ReadClientFault_Fatal(c) ==
  /\ proc = "listening"
  /\ pc[c] = "read"
  /\ ReadResult(c).tag \notin {"Pending", "Ok", "ConnectionError"}
  /\ ~(ReadResult(c).tag = "IncompleteRequest" /\ ReadResult(c).n = 0)
  /\ nread' = [nread EXCEPT ![c] = @ + 1]
  /\ delivered' = [delivered EXCEPT ![c] = TRUE]
  /\ cin' = [cin EXCEPT ![c] = Tail(@)]
  /\ response' = [response EXCEPT
                    ![c] = make_http_error(ErrorStatus(ReadResult(c).tag),
                                           c, nread[c] + 1,
                                           ReadResult(c).tag)]
  /\ pc' = [pc EXCEPT ![c] = "send_return"]
  /\ UNCHANGED <<proc, upstream_addresses, cstate, csent, nok, client_open,
                 upstream_conn, upstream_open, connects, request,
                 nfwd, forwarded, upReq, upResp, nresp, ustate, nsent>>

\* ReadClientFault that ends the task without answering
ReadClientFault_Silent(c) ==
  /\ proc = "listening"
  /\ pc[c] = "read"
  /\ ReadResult(c).tag \notin {"Pending", "Ok", "ConnectionError"}
  /\ ~(ReadResult(c).tag = "IncompleteRequest" /\ ReadResult(c).n = 0)
  /\ nread' = [nread EXCEPT ![c] = @ + 1]
  /\ Return(c)
  /\ UNCHANGED <<proc, upstream_addresses, cstate, csent, nok,
                 upstream_conn, connects, request, response, nfwd,
                 forwarded, nresp, ustate, nsent, delivered>>

\* ReadClientFault that passes the request it could not read on to the
\* upstream before answering
ReadClientFault_Forward(c) ==
  /\ proc = "listening"
  /\ pc[c] = "read"
  /\ ReadResult(c).tag \notin {"Pending", "Ok", "ConnectionError"}
  /\ ~(ReadResult(c).tag = "IncompleteRequest" /\ ReadResult(c).n = 0)
  /\ nread' = [nread EXCEPT ![c] = @ + 1]
  /\ delivered' = [delivered EXCEPT ![c] = TRUE]
  /\ cin' = [cin EXCEPT ![c] = Tail(@)]
  /\ nfwd' = [nfwd EXCEPT ![c] = @ + 1]
  /\ response' = [response EXCEPT
                    ![c] = make_http_error(ErrorStatus(ReadResult(c).tag),
                                           c, nread[c] + 1,
                                           ReadResult(c).tag)]
  /\ pc' = [pc EXCEPT ![c] = "send_loop"]
  /\ UNCHANGED <<proc, upstream_addresses, cstate, csent, nok, client_open,
                 upstream_conn, upstream_open, connects, request,
                 forwarded, upReq, upResp, nresp, ustate, nsent>>

\* main.rs:142-154: every other error is answered and the loop continues
ReadClientFault(c) ==
  /\ proc = "listening"
  /\ pc[c] = "read"
  /\ ReadResult(c).tag \notin {"Pending", "Ok", "ConnectionError"}
  /\ ~(ReadResult(c).tag = "IncompleteRequest" /\ ReadResult(c).n = 0)
  /\ nread' = [nread EXCEPT ![c] = @ + 1]
  /\ delivered' = [delivered EXCEPT ![c] = TRUE]
  /\ cin' = [cin EXCEPT ![c] = Tail(@)]
  /\ response' = [response EXCEPT
                    ![c] = make_http_error(ErrorStatus(ReadResult(c).tag),
                                           c, nread[c] + 1,
                                           ReadResult(c).tag)]
  /\ pc' = [pc EXCEPT ![c] = "send_loop"]
  /\ UNCHANGED <<proc, upstream_addresses, cstate, csent, nok, client_open,
                 upstream_conn, upstream_open, connects, request,
                 nfwd, forwarded, upReq, upResp, nresp, ustate, nsent>>

\* ForwardRequest that selects and connects an upstream for every request
ForwardRequest_Reconnect(c) ==
  /\ proc = "listening"
  /\ pc[c] = "forward"
  /\ LET extended == extend_header_value(request[c], ClientIP(c)) IN
     /\ request' = [request EXCEPT ![c] = extended]
     /\ \E upstream_idx \in 1..Len(upstream_addresses) :
          /\ upstream_conn' = [upstream_conn EXCEPT
                                 ![c] = upstream_addresses[upstream_idx]]
          /\ connects' = [connects EXCEPT ![c] = @ + 1]
          /\ nfwd' = [nfwd EXCEPT ![c] = @ + 1]
          /\ forwarded' = [forwarded EXCEPT
               ![c] = [conn |-> extended.conn, seq |-> extended.seq,
                       orig |-> extended.orig, xff |-> extended.xff,
                       addr |-> upstream_addresses[upstream_idx]]]
          /\ upReq' = [upReq EXCEPT
               ![c] = IF ustate[c] = "open" THEN Append(@, extended) ELSE @]
          /\ pc' = [pc EXCEPT ![c] = "read_resp"]
  /\ UNCHANGED <<proc, upstream_addresses, cstate, csent, cin, nread, nok,
                 client_open, upstream_open, response, upResp, nresp,
                 ustate, nsent, delivered>>

\* ForwardRequest without the call of extend_header_value
ForwardRequest_NoXff(c) ==
  /\ proc = "listening"
  /\ pc[c] = "forward"
  /\ \E written \in WriteOutcomes(ustate[c]) :
       IF written
       THEN /\ nfwd' = [nfwd EXCEPT ![c] = @ + 1]
            /\ forwarded' = [forwarded EXCEPT
                 ![c] = [conn |-> request[c].conn, seq |-> request[c].seq,
                         orig |-> request[c].orig, xff |-> request[c].xff,
                         addr |-> upstream_conn[c]]]
            /\ upReq' = [upReq EXCEPT
                 ![c] = IF ustate[c] = "open" THEN Append(@, request[c])
                                              ELSE @]
            /\ pc' = [pc EXCEPT ![c] = "read_resp"]
            /\ UNCHANGED response
       ELSE /\ response' = [response EXCEPT
                 ![c] = make_http_error(BAD_GATEWAY, c, request[c].seq,
                                        "UpstreamWrite")]
            /\ pc' = [pc EXCEPT ![c] = "send_return"]
            /\ UNCHANGED <<nfwd, forwarded, upReq>>
  /\ UNCHANGED <<proc, upstream_addresses, cstate, csent, cin, nread, nok,
                 client_open, upstream_conn, upstream_open, connects,
                 request, upResp, nresp, ustate, nsent, delivered>>

\* ForwardRequest that goes back to reading the client once the request
\* is written, without waiting for the upstream's response
ForwardRequest_Eager(c) ==
  /\ proc = "listening"
  /\ pc[c] = "forward"
  /\ LET extended == extend_header_value(request[c], ClientIP(c)) IN
     /\ \E written \in WriteOutcomes(ustate[c]) :
          IF written
          THEN /\ nfwd' = [nfwd EXCEPT ![c] = @ + 1]
               /\ upReq' = [upReq EXCEPT
                    ![c] = IF ustate[c] = "open" THEN Append(@, extended)
                                                 ELSE @]
               /\ request' = [request EXCEPT ![c] = NoReq]
               /\ pc' = [pc EXCEPT ![c] = "read"]
               /\ UNCHANGED response
          ELSE /\ request' = [request EXCEPT ![c] = extended]
               /\ response' = [response EXCEPT
                    ![c] = make_http_error(BAD_GATEWAY, c, extended.seq,
                                           "UpstreamWrite")]
               /\ pc' = [pc EXCEPT ![c] = "send_return"]
               /\ UNCHANGED <<nfwd, upReq>>
  /\ UNCHANGED <<proc, upstream_addresses, cstate, csent, cin, nread, nok,
                 client_open, upstream_conn, upstream_open, connects,
                 forwarded, upResp, nresp, ustate, nsent, delivered>>

\* ForwardRequest with `continue` in place of `return` after a failed write
ForwardRequest_Lenient(c) ==
  /\ proc = "listening"
  /\ pc[c] = "forward"
  /\ LET extended == extend_header_value(request[c], ClientIP(c)) IN
     /\ request' = [request EXCEPT ![c] = extended]
     /\ \E written \in WriteOutcomes(ustate[c]) :
          IF written
          THEN /\ nfwd' = [nfwd EXCEPT ![c] = @ + 1]
               /\ forwarded' = [forwarded EXCEPT
                    ![c] = [conn |-> extended.conn, seq |-> extended.seq,
                            orig |-> extended.orig, xff |-> extended.xff,
                            addr |-> upstream_conn[c]]]
               /\ upReq' = [upReq EXCEPT
                    ![c] = IF ustate[c] = "open" THEN Append(@, extended)
                                                 ELSE @]
               /\ pc' = [pc EXCEPT ![c] = "read_resp"]
               /\ UNCHANGED response
          ELSE /\ response' = [response EXCEPT
                    ![c] = make_http_error(BAD_GATEWAY, c, extended.seq,
                                           "UpstreamWrite")]
               /\ pc' = [pc EXCEPT ![c] = "send_loop"]
               /\ UNCHANGED <<nfwd, forwarded, upReq>>
  /\ UNCHANGED <<proc, upstream_addresses, cstate, csent, cin, nread, nok,
                 client_open, upstream_conn, upstream_open, connects,
                 upResp, nresp, ustate, nsent, delivered>>

\* main.rs:163-177: add x-forwarded-for, write the request to upstream_conn;
\* a failed write is answered with 502 and ends the task
ForwardRequest(c) ==
  /\ proc = "listening"
  /\ pc[c] = "forward"
  /\ LET extended == extend_header_value(request[c], ClientIP(c)) IN
     /\ request' = [request EXCEPT ![c] = extended]
     /\ \E written \in WriteOutcomes(ustate[c]) :
          IF written
          THEN /\ nfwd' = [nfwd EXCEPT ![c] = @ + 1]
               /\ forwarded' = [forwarded EXCEPT
                    ![c] = [conn |-> extended.conn, seq |-> extended.seq,
                            orig |-> extended.orig, xff |-> extended.xff,
                            addr |-> upstream_conn[c]]]
               /\ upReq' = [upReq EXCEPT
                    ![c] = IF ustate[c] = "open" THEN Append(@, extended)
                                                 ELSE @]
               /\ pc' = [pc EXCEPT ![c] = "read_resp"]
               /\ UNCHANGED response
          ELSE /\ response' = [response EXCEPT
                    ![c] = make_http_error(BAD_GATEWAY, c, extended.seq,
                                           "UpstreamWrite")]
               /\ pc' = [pc EXCEPT ![c] = "send_return"]
               /\ UNCHANGED <<nfwd, forwarded, upReq>>
  /\ UNCHANGED <<proc, upstream_addresses, cstate, csent, cin, nread, nok,
                 client_open, upstream_conn, upstream_open, connects,
                 upResp, nresp, ustate, nsent, delivered>>

\* ReadResponse that goes back to reading the client before the response
\* it holds has been passed to send_response
ReadResponse_Pipelined(c) ==
  /\ proc = "listening"
  /\ pc[c] = "read_resp"
  /\ LET r == response_read_from_stream(upResp[c], ustate[c]) IN
     /\ r.tag # "Pending"
     /\ IF r.tag = "Ok"
        THEN /\ response' = [response EXCEPT ![c] = Head(upResp[c]).resp]
             /\ upResp' = [upResp EXCEPT ![c] = Tail(@)]
             /\ nresp' = [nresp EXCEPT ![c] = @ + 1]
             /\ pc' = [pc EXCEPT ![c] = "read"]
        ELSE /\ response' = [response EXCEPT
                  ![c] = make_http_error(BAD_GATEWAY, c, request[c].seq,
                                         "UpstreamRead")]
             /\ upResp' = [upResp EXCEPT
                  ![c] = IF @ = <<>> THEN @ ELSE Tail(@)]
             /\ pc' = [pc EXCEPT ![c] = "send_return"]
             /\ UNCHANGED nresp
  /\ UNCHANGED <<proc, upstream_addresses, cstate, csent, cin, nread, nok,
                 client_open, upstream_conn, upstream_open, connects,
                 request, nfwd, forwarded, upReq, ustate, nsent, delivered>>

\* ReadResponse with `continue` in place of `return` after a failed read
ReadResponse_Lenient(c) ==
  /\ proc = "listening"
  /\ pc[c] = "read_resp"
  /\ LET r == response_read_from_stream(upResp[c], ustate[c]) IN
     /\ r.tag # "Pending"
     /\ IF r.tag = "Ok"
        THEN /\ response' = [response EXCEPT ![c] = Head(upResp[c]).resp]
             /\ upResp' = [upResp EXCEPT ![c] = Tail(@)]
             /\ nresp' = [nresp EXCEPT ![c] = @ + 1]
             /\ pc' = [pc EXCEPT ![c] = "send_loop"]
        ELSE /\ response' = [response EXCEPT
                  ![c] = make_http_error(BAD_GATEWAY, c, request[c].seq,
                                         "UpstreamRead")]
             /\ upResp' = [upResp EXCEPT
                  ![c] = IF @ = <<>> THEN @ ELSE Tail(@)]
             /\ pc' = [pc EXCEPT ![c] = "send_loop"]
             /\ UNCHANGED nresp
  /\ UNCHANGED <<proc, upstream_addresses, cstate, csent, cin, nread, nok,
                 client_open, upstream_conn, upstream_open, connects,
                 request, nfwd, forwarded, upReq, ustate, nsent, delivered>>

\* ReadResponse on an upstream socket shared by the tasks: the response
\* read is the next one of any connection
ReadResponse_Shared(c) ==
  /\ proc = "listening"
  /\ pc[c] = "read_resp"
  /\ \E d \in Conns :
       /\ upResp[d] # <<>>
       /\ Head(upResp[d]).wellformed
       /\ response' = [response EXCEPT ![c] = Head(upResp[d]).resp]
       /\ upResp' = [upResp EXCEPT ![d] = Tail(@)]
  /\ nresp' = [nresp EXCEPT ![c] = @ + 1]
  /\ pc' = [pc EXCEPT ![c] = "send_loop"]
  /\ UNCHANGED <<proc, upstream_addresses, cstate, csent, cin, nread, nok,
                 client_open, upstream_conn, upstream_open, connects,
                 request, nfwd, forwarded, upReq, ustate, nsent, delivered>>

\* ReadResponse with a timeout: when the upstream has neither answered nor
\* closed, the read gives up and the task answers 502 and ends
ReadResponse_Timeout(c) ==
  /\ proc = "listening"
  /\ pc[c] = "read_resp"
  /\ LET r == response_read_from_stream(upResp[c], ustate[c]) IN
     IF r.tag = "Ok"
     THEN /\ response' = [response EXCEPT ![c] = Head(upResp[c]).resp]
          /\ upResp' = [upResp EXCEPT ![c] = Tail(@)]
          /\ nresp' = [nresp EXCEPT ![c] = @ + 1]
          /\ pc' = [pc EXCEPT ![c] = "send_loop"]
     ELSE /\ response' = [response EXCEPT
               ![c] = make_http_error(BAD_GATEWAY, c, request[c].seq,
                                      "UpstreamRead")]
          /\ upResp' = [upResp EXCEPT
               ![c] = IF @ = <<>> THEN @ ELSE Tail(@)]
          /\ pc' = [pc EXCEPT ![c] = "send_return"]
          /\ UNCHANGED nresp
  /\ UNCHANGED <<proc, upstream_addresses, cstate, csent, cin, nread, nok,
                 client_open, upstream_conn, upstream_open, connects,
                 request, nfwd, forwarded, upReq, ustate, nsent, delivered>>

\* main.rs:180-189: read the upstream's response; any failure is answered
\* with 502 and ends the task
ReadResponse(c) ==
  /\ proc = "listening"
  /\ pc[c] = "read_resp"
  /\ LET r == response_read_from_stream(upResp[c], ustate[c]) IN
     /\ r.tag # "Pending"
     /\ IF r.tag = "Ok"
        THEN /\ response' = [response EXCEPT ![c] = Head(upResp[c]).resp]
             /\ upResp' = [upResp EXCEPT ![c] = Tail(@)]
             /\ nresp' = [nresp EXCEPT ![c] = @ + 1]
             /\ pc' = [pc EXCEPT ![c] = "send_loop"]
        ELSE /\ response' = [response EXCEPT
                  ![c] = make_http_error(BAD_GATEWAY, c, request[c].seq,
                                         "UpstreamRead")]
             /\ upResp' = [upResp EXCEPT
                  ![c] = IF @ = <<>> THEN @ ELSE Tail(@)]
             /\ pc' = [pc EXCEPT ![c] = "send_return"]
             /\ UNCHANGED nresp
  /\ UNCHANGED <<proc, upstream_addresses, cstate, csent, cin, nread, nok,
                 client_open, upstream_conn, upstream_open, connects,
                 request, nfwd, forwarded, upReq, ustate, nsent, delivered>>

\* SendResponse for which a failed write to the client ends the task
SendResponse_Fatal(c) ==
  /\ proc = "listening"
  /\ pc[c] \in {"send_loop", "send_return"}
  /\ nsent' = [nsent EXCEPT ![c] = @ + 1]
  /\ response' = [response EXCEPT ![c] = NoResp]
  /\ request' = [request EXCEPT ![c] = NoReq]
  /\ forwarded' = [forwarded EXCEPT ![c] = NoFwd]
  /\ \E ok \in WriteOutcomes(cstate[c]) :
       /\ delivered' = [delivered EXCEPT ![c] = ok]
       /\ IF pc[c] = "send_loop" /\ ok
          THEN /\ pc' = [pc EXCEPT ![c] = "read"]
               /\ UNCHANGED <<client_open, upstream_open, cin, upReq,
                              upResp>>
          ELSE Return(c)
  /\ UNCHANGED <<proc, upstream_addresses, cstate, csent, nread, nok,
                 upstream_conn, connects, nfwd, nresp, ustate>>

\* send_response (main.rs:98-110) at its call sites 120, 152, 174, 186, 192:
\* a failed write is logged and swallowed; then `continue` or `return`
SendResponse(c) ==
  /\ proc = "listening"
  /\ pc[c] \in {"send_loop", "send_return"}
  /\ \E ok \in WriteOutcomes(cstate[c]) :
       delivered' = [delivered EXCEPT ![c] = ok]
  /\ nsent' = [nsent EXCEPT ![c] = @ + 1]
  /\ response' = [response EXCEPT ![c] = NoResp]
  /\ request' = [request EXCEPT ![c] = NoReq]
  /\ forwarded' = [forwarded EXCEPT ![c] = NoFwd]
  /\ IF pc[c] = "send_loop"
     THEN /\ pc' = [pc EXCEPT ![c] = "read"]
          /\ UNCHANGED <<client_open, upstream_open, cin, upReq, upResp>>
     ELSE Return(c)
  /\ UNCHANGED <<proc, upstream_addresses, cstate, csent, nread, nok,
                 upstream_conn, connects, nfwd, nresp, ustate>>

\* ------------------------------------------------------------ environment
\* Events of the environment are taken at the points where the task can
\* observe them: the client's bytes and its close when the task reads from
\* or writes to the client socket, the upstream's close when the task
\* writes to or reads from the upstream socket.

\* the client writes one more message, once the previous one was consumed
ClientSend(c) ==
  /\ proc = "listening"
  /\ pc[c] = "read"
  /\ cstate[c] = "open"
  /\ cin[c] = <<>>
  /\ Events < MaxEvents
  /\ \E item \in Items : cin' = [cin EXCEPT ![c] = Append(@, item)]
  /\ csent' = [csent EXCEPT ![c] = @ + 1]
  /\ UNCHANGED <<proc, upstream_addresses, pc, cstate, nread, nok,
                 client_open, upstream_conn, upstream_open, connects,
                 request, response, nfwd, forwarded, upReq, upResp, nresp,
                 ustate, nsent, delivered>>

\* the client closes its connection (orderly) or the connection breaks
ClientClose(c) ==
  /\ proc = "listening"
  /\ pc[c] \in {"read", "send_loop", "send_return"}
  /\ cstate[c] = "open"
  /\ Events < MaxEvents
  /\ \E st \in {"closed", "reset"} : cstate' = [cstate EXCEPT ![c] = st]
  /\ UNCHANGED <<proc, upstream_addresses, pc, csent, cin, nread, nok,
                 client_open, upstream_conn, upstream_open, connects,
                 request, response, nfwd, forwarded, upReq, upResp, nresp,
                 ustate, nsent, delivered>>

\* the upstream answers the oldest request it has received and not answered
UpstreamRespond(c) ==
  /\ proc = "listening"
  /\ upstream_open[c]
  /\ ustate[c] = "open"
  /\ upReq[c] # <<>>
  /\ LET req == Head(upReq[c]) IN
     \E wf \in BOOLEAN :
     \E st \in IF wf THEN UpstreamStatuses ELSE {0} :
       upResp' = [upResp EXCEPT
          ![c] = Append(@, [wellformed |-> wf,
                            resp |-> [status |-> st, conn |-> req.conn,
                                      seq |-> req.seq, synth |-> FALSE,
                                      why |-> "upstream"]])]
  /\ upReq' = [upReq EXCEPT ![c] = Tail(@)]
  /\ UNCHANGED <<proc, upstream_addresses, pc, cstate, csent, cin, nread,
                 nok, client_open, upstream_conn, upstream_open, connects,
                 request, response, nfwd, forwarded, nresp, ustate,
                 nsent, delivered>>

\* the upstream closes the connection
UpstreamClose(c) ==
  /\ proc = "listening"
  /\ pc[c] \in {"forward", "read_resp"}
  /\ ustate[c] = "open"
  /\ Events < MaxEvents
  /\ ustate' = [ustate EXCEPT ![c] = "closed"]
  /\ UNCHANGED <<proc, upstream_addresses, pc, cstate, csent, cin, nread,
                 nok, client_open, upstream_conn, upstream_open, connects,
                 request, response, nfwd, forwarded, upReq, upResp,
                 nresp, nsent, delivered>>

\* ---------------------------------------------------------- specification
TaskStep(c) ==
  \/ Connect(c)
  \/ ReadOk(c)
  \/ ReadEof(c)
  \/ ReadConnError(c)
  \/ ReadClientFault(c)
  \/ ForwardRequest(c)
  \/ ReadResponse(c)
  \/ SendResponse(c)

Next ==
  \/ Start
  \/ \E c \in Conns : Accept(c)
  \/ \E c \in Conns : AcceptFail(c)
  \/ \E c \in Conns : TaskStep(c)
  \/ \E c \in Conns : ClientSend(c)
  \/ \E c \in Conns : ClientClose(c)
  \/ \E c \in Conns : UpstreamRespond(c)
  \/ \E c \in Conns : UpstreamClose(c)

Spec == Init /\ [][Next]_vars

\* the runtime schedules every spawned task that is able to run
LiveSpec == Init /\ [][Next]_vars /\ \A c \in Conns : WF_vars(TaskStep(c))

\* ----------------------------------------------------------------- claims

\* C1: within one client connection the proxy never pipelines.  Whenever the
\* task is about to read from the client, send_response has been called for
\* every message read so far; while a message is being processed exactly
\* one response is outstanding, and the response handed to send_response is
\* the one for the message read last, so responses go out in request order.
C1_NoPipelining ==
  \A c \in Conns :
    upstream_conn[c] # 0 =>
      /\ pc[c] = "read" => nsent[c] = nread[c]
      /\ pc[c] \in {"forward", "read_resp", "send_loop", "send_return"}
           => nsent[c] + 1 = nread[c]
      /\ pc[c] \in {"send_loop", "send_return"}
           => response[c].conn = c /\ response[c].seq = nread[c]

\* a second message is read after the first one was answered
C1_Witness ==
  \E c \in Conns : nread[c] = 2 /\ nsent[c] = 1 /\ pc[c] = "forward"

\* C2: the upstream of a connection is selected and connected exactly once,
\* before the first request is read, it never changes afterwards, and every
\* request is written to that upstream.
C2_SameUpstream ==
  [][\A c \in Conns :
       /\ connects'[c] <= 1
       /\ nread'[c] > nread[c] => connects[c] = 1 /\ upstream_conn[c] # 0
       /\ upstream_conn[c] # 0 => upstream_conn'[c] = upstream_conn[c]
       /\ nfwd'[c] > nfwd[c]
            => upstream_conn[c] # 0
               /\ forwarded'[c].addr = upstream_conn[c]]_vars

\* two requests of one connection were written to its upstream
C2_Witness ==
  \E c \in Conns :
    nfwd[c] = 2 /\ connects[c] = 1 /\ forwarded[c].addr = upstream_conn[c]

\* C3: a failed connect is answered with exactly one 502 and ends the task
\* without a request being read; there is one connect attempt per connection
\* and no other upstream is tried, even when another one would accept.
C3_ConnectFailure ==
  \A c \in Conns :
    /\ connects[c] <= 1
    /\ (connects[c] = 1 /\ upstream_conn[c] = 0) =>
         /\ nread[c] = 0 /\ nfwd[c] = 0
         /\ pc[c] \in {"send_return", "done"}
         /\ pc[c] = "send_return" =>
              /\ nsent[c] = 0
              /\ response[c].status = BAD_GATEWAY /\ response[c].synth
         /\ pc[c] = "done" => nsent[c] = 1

\* the connect of one task failed and the task has ended after its 502,
\* while another task holds an open connection to a live upstream
C3_Witness ==
  \E c, d \in Conns :
    /\ pc[c] = "done" /\ connects[c] = 1 /\ upstream_conn[c] = 0
    /\ nsent[c] = 1
    /\ upstream_open[d] /\ ustate[d] = "open"

\* C4: a client-fault failure of the read is recoverable: it is answered
\* with one 400 or 413, both sockets stay open and the task goes back to
\* reading the next request.
C4_ClientFaultRecoverable ==
  [][\A c \in Conns :
       /\ ( /\ pc[c] = "read"
            /\ pc'[c] # "read"
            /\ \/ ReadResult(c).tag \in {"MalformedRequest",
                     "InvalidContentLength", "ContentLengthMismatch",
                     "RequestBodyTooLarge"}
               \/ ReadResult(c).tag = "IncompleteRequest"
                    /\ ReadResult(c).n > 0 )
            => /\ pc'[c] = "send_loop"
               /\ response'[c].synth
               /\ response'[c].status \in {BAD_REQUEST, PAYLOAD_TOO_LARGE}
               /\ nsent'[c] = nsent[c]
               /\ client_open'[c] /\ upstream_open'[c]
       /\ ( /\ pc[c] = "send_loop"
            /\ pc'[c] # "send_loop"
            /\ response[c].synth
            /\ response[c].status \in {BAD_REQUEST, PAYLOAD_TOO_LARGE} )
            => /\ pc'[c] = "read"
               /\ nsent'[c] = nsent[c] + 1
               /\ client_open'[c] /\ upstream_open'[c]]_vars

\* a malformed message was answered and the task reads again
C4_Witness ==
  \E c \in Conns :
    /\ pc[c] = "read" /\ nread[c] = 1 /\ nok[c] = 0 /\ nsent[c] = 1
    /\ client_open[c] /\ upstream_open[c]

\* C5: an upstream fault is fatal: a failed write of the request or a failed
\* read of the response is answered with 502 and ends the task; afterwards
\* no request is read and the upstream socket is neither written nor read.
C5_UpstreamFaultFatal ==
  [][\A c \in Conns :
       /\ (pc[c] = "forward" /\ pc'[c] \notin {"forward", "read_resp"})
            => /\ pc'[c] = "send_return"
               /\ response'[c].status = BAD_GATEWAY /\ response'[c].synth
               /\ nfwd'[c] = nfwd[c]
       /\ ( /\ pc[c] = "read_resp"
            /\ pc'[c] # "read_resp"
            /\ response_read_from_stream(upResp[c], ustate[c]).tag = "Err" )
            => /\ pc'[c] = "send_return"
               /\ response'[c].status = BAD_GATEWAY /\ response'[c].synth
       /\ (pc[c] = "send_return" /\ pc'[c] # "send_return")
            => /\ pc'[c] = "done"
               /\ nsent'[c] = nsent[c] + 1
       /\ pc[c] \in {"send_return", "done"}
            => /\ pc'[c] \in {"send_return", "done"}
               /\ nread'[c] = nread[c]
               /\ nfwd'[c] = nfwd[c]
               /\ nresp'[c] = nresp[c]
       /\ pc[c] = "done" => pc'[c] = "done" /\ nsent'[c] = nsent[c]]_vars

\* the response to a forwarded request could not be read; the task ended
\* after one more send_response
C5_Witness ==
  \E c \in Conns :
    /\ pc[c] = "done" /\ nfwd[c] = 1 /\ nresp[c] = 0
    /\ nread[c] = 1 /\ nsent[c] = 1

\* C6: graceful end of input or a connection error on the client read ends
\* the task without a response to the client and without a write to the
\* upstream.
C6_SilentTermination ==
  [][\A c \in Conns :
       ( /\ pc[c] = "read"
         /\ pc'[c] # "read"
         /\ \/ ReadResult(c).tag = "ConnectionError"
            \/ ReadResult(c).tag = "IncompleteRequest"
                 /\ ReadResult(c).n = 0 )
         => /\ pc'[c] = "done"
            /\ response'[c] = NoResp
            /\ nsent'[c] = nsent[c]
            /\ nfwd'[c] = nfwd[c]]_vars

\* one connection ended by end of input, another by a connection error
C6_Witness ==
  \E c, d \in Conns :
    /\ pc[c] = "done" /\ cstate[c] = "closed" /\ upstream_conn[c] # 0
    /\ nsent[c] = 0 /\ nfwd[c] = 0
    /\ pc[d] = "done" /\ cstate[d] = "reset" /\ upstream_conn[d] # 0
    /\ nsent[d] = 0 /\ nfwd[d] = 0

\* C7 as stated: a client that connects and closes without sending a byte
\* gets no response and no upstream connection is attempted for it.
C7_Original ==
  \A c \in Conns :
    (pc[c] = "done" /\ csent[c] = 0 /\ cstate[c] = "closed")
      => nsent[c] = 0 /\ connects[c] = 0

\* C7 amended: for a client that connects and closes without sending a byte
\* the one upstream connect attempt has been made before the read; no
\* request is read or forwarded, and no response is sent unless that connect
\* attempt failed, in which case the one 502 is sent.
C7_ZeroByteClose ==
  \A c \in Conns :
    (pc[c] = "done" /\ csent[c] = 0 /\ cstate[c] = "closed")
      => /\ connects[c] = 1
         /\ nread[c] = 0 /\ nfwd[c] = 0
         /\ upstream_conn[c] # 0 => nsent[c] = 0
         /\ upstream_conn[c] = 0 => nsent[c] = 1

\* the client closed without a byte, the upstream was connected, the task
\* ended silently
C7_Witness ==
  \E c \in Conns :
    /\ pc[c] = "done" /\ csent[c] = 0 /\ cstate[c] = "closed"
    /\ upstream_conn[c] # 0 /\ nsent[c] = 0

\* C8: every request written to an upstream carries the x-forwarded-for
\* value it arrived with, followed by the client's address, added once.
C8_XForwardedFor ==
  \A c \in Conns :
    /\ forwarded[c] # NoFwd
         => forwarded[c].xff = Append(forwarded[c].orig, ClientIP(c))
    /\ \A i \in DOMAIN upReq[c] :
         upReq[c][i].xff = Append(upReq[c][i].orig, ClientIP(c))

\* a request that arrived with an x-forwarded-for value was forwarded
C8_Witness ==
  \E c \in Conns :
    /\ forwarded[c].orig = <<ForeignIP>>
    /\ forwarded[c].xff = <<ForeignIP, ClientIP(c)>>
    /\ upReq[c] # <<>>

\* C9: with connections served concurrently every request parsed is written
\* to the upstream once (never twice, and none is skipped once the task is
\* back at reading), and a response is handed to the client of the
\* connection whose request produced it.
C9_Concurrency ==
  /\ \A c \in Conns :
       /\ pc[c] \in {"send_loop", "send_return"}
            => response[c].conn = c /\ response[c].seq = nread[c]
       /\ forwarded[c] # NoFwd
            => forwarded[c].conn = c /\ forwarded[c].seq = nread[c]
       /\ nfwd[c] <= nok[c] /\ nok[c] <= nfwd[c] + 1
       /\ nresp[c] <= nfwd[c] /\ nfwd[c] <= nresp[c] + 1
       /\ pc[c] = "read" => nfwd[c] = nok[c] /\ nresp[c] = nok[c]
  /\ (\A c \in Conns : pc[c] \in {"none", "connect", "read"})
       => SumTo(nfwd, NumConns) = SumTo(nok, NumConns)

\* two tasks hold an upstream response each at the same time
C9_Witness ==
  \E c, d \in Conns :
    /\ c # d
    /\ pc[c] = "send_loop" /\ ~response[c].synth
    /\ pc[d] = "send_loop" /\ ~response[d].synth

\* C10: body-length enforcement never hangs.  Once the client has closed
\* after a request whose content-length exceeds the body it sent, the read
\* fails with a 400 to send, and after it the task ends (or the process
\* has exited).
C10_NoHang ==
  \A c \in Conns :
    /\ ( /\ proc = "listening"
         /\ pc[c] = "read"
         /\ cstate[c] = "closed"
         /\ cin[c] # <<>>
         /\ Head(cin[c]).kind = "shortbody" )
         ~> ( \/ proc = "exited"
              \/ /\ pc[c] = "send_loop"
                 /\ response[c].status = BAD_REQUEST
                 /\ response[c].why = "ContentLengthMismatch"
                 /\ cstate[c] = "closed"
                 /\ cin[c] = <<>> )
    /\ ( /\ pc[c] = "send_loop"
         /\ response[c].why = "ContentLengthMismatch"
         /\ cstate[c] = "closed"
         /\ cin[c] = <<>> )
         ~> (proc = "exited" \/ pc[c] = "done")

\* the 400 for the short body is about to be sent to the closed client
C10_Witness ==
  \E c \in Conns :
    /\ pc[c] = "send_loop"
    /\ response[c].why = "ContentLengthMismatch"
    /\ response[c].status = BAD_REQUEST
    /\ cstate[c] = "closed"

\* C11: the status of a response the proxy synthesizes is determined by the
\* failure kind: malformed, incomplete (after at least one byte), invalid
\* content-length and content-length mismatch give 400, body too large
\* gives 413, a failed upstream connect, write or response read gives 502;
\* no other failure kind is answered.
C11_StatusByFailure ==
  \A c \in Conns :
    /\ response[c].synth =>
         /\ pc[c] \in {"send_loop", "send_return"}
         /\ response[c].why \in
              {"MalformedRequest", "IncompleteRequest",
               "InvalidContentLength", "ContentLengthMismatch",
               "RequestBodyTooLarge",
               "ConnectFailed", "UpstreamWrite", "UpstreamRead"}
         /\ response[c].why \in
              {"MalformedRequest", "IncompleteRequest",
               "InvalidContentLength", "ContentLengthMismatch"}
              => response[c].status = BAD_REQUEST
         /\ response[c].why = "IncompleteRequest"
              => nread[c] >= 1 /\ response[c].seq = nread[c]
         /\ response[c].why = "RequestBodyTooLarge"
              => response[c].status = PAYLOAD_TOO_LARGE
         /\ response[c].why \in {"ConnectFailed", "UpstreamWrite",
                                  "UpstreamRead"}
              => response[c].status = BAD_GATEWAY
    /\ ~response[c].synth => response[c].why \in {"none", "upstream"}

\* a 413 for a body too large and a 502 for a failed connect are about to
\* be sent, on two connections
C11_Witness ==
  \E c, d \in Conns :
    /\ response[c].synth /\ response[c].why = "RequestBodyTooLarge"
    /\ response[c].status = PAYLOAD_TOO_LARGE
    /\ response[d].synth /\ response[d].why = "ConnectFailed"
    /\ response[d].status = BAD_GATEWAY

\* C12: a failure on a connection never ends the process.  The process
\* exits only from start-up (no upstream configured, bind failed) or from a
\* failed accept; a step of a connection task leaves main where it is.
C12_ProcessSurvives ==
  [][ /\ connVars' # connVars => proc' = proc /\ proc = "listening"
      /\ proc' # proc =>
            \/ proc = "init" /\ proc' \in {"listening", "exited"}
            \/ /\ proc = "listening" /\ proc' = "exited"
               /\ \E c \in Conns : pc[c] = "none"
      /\ (proc = "init" /\ proc' = "listening")
            => Len(upstream_addresses) >= 1 ]_vars

\* one task has ended after a failed connect, another after an upstream
\* fault, and main is still accepting
C12_Witness ==
  \E c, d \in Conns :
    /\ proc = "listening"
    /\ pc[c] = "done" /\ upstream_conn[c] = 0 /\ nsent[c] = 1
    /\ pc[d] = "done" /\ ustate[d] = "closed" /\ nsent[d] = 1

\* C13: the proxy never originates a 503: a connection error on the client
\* socket ends the task silently before the status match is reached, so the
\* statuses the proxy synthesizes are 400, 413 and 502 only.  A 503 is
\* handed to send_response only as the upstream's own response, relayed.
C13_No503 ==
  \A c \in Conns :
    /\ response[c].synth =>
         response[c].status \in {BAD_REQUEST, PAYLOAD_TOO_LARGE, BAD_GATEWAY}
    /\ response[c].status = SERVICE_UNAVAILABLE =>
         ~response[c].synth /\ response[c].why = "upstream"
    /\ response[c].why # "ConnectionError"

\* the client socket broke after a request had been answered: the task has
\* ended and only that one response was sent
C13_Witness ==
  \E c \in Conns :
    /\ pc[c] = "done" /\ cstate[c] = "reset"
    /\ nread[c] = 1 /\ nsent[c] = 1 /\ upstream_conn[c] # 0

\* C14: however the task ends, in its terminal state both the client
\* socket and the upstream socket are closed; while the loop runs both are
\* held; after a failed connect no upstream socket is ever held.
C14_SocketsClosedTogether ==
  \A c \in Conns :
    /\ pc[c] = "done" => ~client_open[c] /\ ~upstream_open[c]
    /\ pc[c] \in {"read", "forward", "read_resp", "send_loop"}
         => client_open[c] /\ upstream_open[c]
    /\ pc[c] = "send_return" => client_open[c]
    /\ upstream_open[c] => upstream_conn[c] # 0
    /\ (connects[c] = 1 /\ upstream_conn[c] = 0) => ~upstream_open[c]

\* one task has ended on the client's end of input after it had connected
\* to its upstream, another after a failed connect: the sockets of both
\* are closed
C14_Witness ==
  \E c, d \in Conns :
    /\ c # d
    /\ pc[c] = "done" /\ upstream_conn[c] # 0 /\ cstate[c] = "closed"
    /\ ~client_open[c] /\ ~upstream_open[c]
    /\ pc[d] = "done" /\ connects[d] = 1 /\ upstream_conn[d] = 0
    /\ ~client_open[d] /\ ~upstream_open[d]

\* C15: the upstream a connection is made to is one of the configured
\* addresses.  The process does not start on an empty set, so the selector
\* runs on a non-empty list only and its index is within the list.
C15_ChosenIsConfigured ==
  /\ proc = "listening" => Len(upstream_addresses) >= 1
  /\ \A c \in Conns :
       /\ pc[c] # "none" => Len(upstream_addresses) >= 1
       /\ upstream_conn[c] # 0 => upstream_conn[c] \in Configured
       /\ forwarded[c] # NoFwd => forwarded[c].addr \in Configured
       /\ pc[c] = "connect" =>
            \E upstream_idx \in 1..Len(upstream_addresses) :
              upstream_addresses[upstream_idx] \in Configured

\* two connections are connected to two different configured upstreams
C15_Witness ==
  \E c, d \in Conns :
    /\ upstream_conn[c] \in Configured
    /\ upstream_conn[d] \in Configured
    /\ upstream_conn[c] # upstream_conn[d]

\* C16: there is no timeout.  While the upstream that took a forwarded
\* request neither answers nor closes, the task stays in the read of the
\* response: it sends nothing to the client, reads no further request and
\* does not end.
C16_StallsOnSilentUpstream ==
  [][ \A c \in Conns :
        ( /\ pc[c] = "read_resp"
          /\ upResp[c] = <<>> /\ ustate[c] = "open"
          /\ upResp'[c] = <<>> /\ ustate'[c] = "open" )
        => /\ pc'[c] = "read_resp"
           /\ nsent'[c] = nsent[c] /\ nread'[c] = nread[c]
           /\ response'[c] = response[c] /\ response[c] = NoResp
           /\ client_open'[c] /\ upstream_open'[c] ]_vars

\* the upstream holds a forwarded request that it has not answered
C16_Witness ==
  \E c \in Conns :
    /\ pc[c] = "read_resp"
    /\ upReq[c] # <<>> /\ upResp[c] = <<>> /\ ustate[c] = "open"
    /\ nfwd[c] = nresp[c] + 1 /\ nsent[c] = nresp[c]

\* C17: a read from the client that fails leaves the upstream socket alone:
\* from the failed read to the next read nothing is written to or read
\* from the upstream, so the requests written to the upstream never
\* outnumber the requests parsed from the client.
C17_FailedReadLeavesUpstream ==
  [][ \A c \in Conns :
        /\ nfwd'[c] <= nok'[c]
        /\ (pc[c] = "read" /\ pc'[c] # "read" /\ nok'[c] = nok[c])
             => /\ pc'[c] \in {"send_loop", "done"}
                /\ nfwd'[c] = nfwd[c] /\ nresp'[c] = nresp[c]
                /\ upReq[c] = <<>> /\ upReq'[c] = <<>>
                /\ upResp[c] = <<>> /\ upResp'[c] = <<>>
                /\ ustate'[c] = ustate[c]
        /\ (pc[c] = "send_loop" /\ response[c].synth /\ pc'[c] # pc[c])
             => /\ pc'[c] = "read"
                /\ nfwd'[c] = nfwd[c] /\ nresp'[c] = nresp[c]
                /\ upReq'[c] = upReq[c] /\ upResp'[c] = upResp[c]
                /\ upstream_open'[c] /\ ustate'[c] = ustate[c] ]_vars

\* after one request that was forwarded and one that could not be read,
\* both answered, the task reads again
C17_Witness ==
  \E c \in Conns :
    /\ pc[c] = "read"
    /\ nread[c] = 2 /\ nok[c] = 1 /\ nfwd[c] = 1 /\ nresp[c] = 1
    /\ nsent[c] = 2

\* C18: an upstream socket carries at most one outstanding request: the
\* requests written to it exceed the responses read from it by 0 or 1,
\* and by 0 whenever the task is about to read or to forward a request.
C18_OneOutstanding ==
  \A c \in Conns :
    /\ nresp[c] <= nfwd[c]
    /\ nfwd[c] <= nresp[c] + 1
    /\ Len(upReq[c]) + Len(upResp[c]) <= nfwd[c] - nresp[c]
    /\ pc[c] \in {"read", "forward", "send_loop"} => nfwd[c] = nresp[c]
    /\ pc[c] = "read_resp" => nfwd[c] = nresp[c] + 1

\* the second request is outstanding after the first one was answered
C18_Witness ==
  \E c \in Conns :
    pc[c] = "read_resp" /\ nfwd[c] = 2 /\ nresp[c] = 1

\* C19: a failed write of a response to the client is swallowed: the loop
\* goes on to the next read with both sockets held and no response pending;
\* the next response answers a further message of the client.  The task
\* ends only from a read of the client or after an upstream fault.
C19_ClientWriteFailureSwallowed ==
  [][ \A c \in Conns :
        /\ (pc[c] = "send_loop" /\ nsent'[c] # nsent[c] /\ ~delivered'[c])
             => /\ pc'[c] = "read"
                /\ nsent'[c] = nsent[c] + 1
                /\ response'[c] = NoResp
                /\ client_open'[c] /\ upstream_open'[c]
                /\ proc' = proc
        /\ (pc[c] = "read" /\ response'[c] # response[c])
             => nread'[c] = nread[c] + 1 /\ response'[c].seq = nread'[c]
        /\ (pc'[c] = "done" /\ pc[c] # "done")
             => pc[c] \in {"read", "send_return"}
        /\ (pc'[c] = "send_return" /\ pc[c] # "send_return")
             => pc[c] \in {"connect", "forward", "read_resp"} ]_vars

\* the upstream's response could not be written to the client; the task is
\* reading again and holds both sockets
C19_Witness ==
  \E c \in Conns :
    /\ pc[c] = "read" /\ ~delivered[c]
    /\ nresp[c] = 1 /\ nsent[c] = 1
    /\ client_open[c] /\ upstream_open[c]

\* C20: a connection gets at most one synthesized 502 and nothing after
\* it: a 502 is synthesized only on the way out of the task, its send is
\* the last one, and a task that has ended sends nothing.
C20_BadGatewayIsLast ==
  [][ \A c \in Conns :
        /\ ( /\ response'[c] # response[c]
             /\ response'[c].synth
             /\ response'[c].status = BAD_GATEWAY )
             => pc[c] # "send_return" /\ pc'[c] = "send_return"
        /\ pc[c] = "send_return"
             => /\ response[c].synth /\ response[c].status = BAD_GATEWAY
                /\ \/ pc'[c] = "send_return" /\ nsent'[c] = nsent[c]
                      /\ response'[c] = response[c]
                   \/ pc'[c] = "done" /\ nsent'[c] = nsent[c] + 1
                      /\ response'[c] = NoResp
        /\ pc[c] = "done"
             => /\ pc'[c] = "done" /\ nsent'[c] = nsent[c]
                /\ response'[c] = NoResp ]_vars

\* a 400 was sent, then a request was forwarded and the upstream failed:
\* the 502 was the second and last response of the connection
C20_Witness ==
  \E c \in Conns :
    /\ pc[c] = "done" /\ ustate[c] = "closed"
    /\ nread[c] = 2 /\ nok[c] = 1 /\ nresp[c] = 0 /\ nsent[c] = 2

====
